---- MODULE Spec2Model ----
(***************************************************************************)
(* A model of the AI Prompt Debugger (src/app.py): the Streamlit form of   *)
(* main(), the construction of PromptDebugger from the configured secrets, *)
(* and analyze_prompt: the rendering of the instruction string, the        *)
(* two-branch provider dispatch and the decoding of the reply.             *)
(*                                                                         *)
(* Text is modelled as a sequence of Unicode code points, so that the      *)
(* template, json.dumps and json.loads are computed character by           *)
(* character as the code computes them.                                    *)
(***************************************************************************)
EXTENDS Integers, Sequences, FiniteSets, TLC

VARIABLES
  secrets,           \* the keys present in st.secrets (the configuration source)
  anthropic_client,  \* self.anthropic_client: NoAttribute, or the api key the client holds
  openai_api_key,    \* the module global openai.api_key: NoKey, or the key installed
  bot_type,          \* widget "Bot Type"
  provider,          \* widget "Model Provider"
  model,             \* widget "Model"
  fields,            \* the seven required text areas, by name
  num_exchanges,     \* widget "Number of Exchanges"
  user_msg,          \* widgets "User Message i", i in 1..num_exchanges
  agent_msg,         \* widgets "Agent Response i", i in 1..num_exchanges
  pc,                \* "idle", or "awaiting" while a provider call is outstanding
  entry,             \* what started the current run: "render", "button" or "direct"
  inputs,            \* << >>, or <<the dict analyze_prompt was called with in this run>>
  analysis_prompt,   \* the local analysis_prompt of analyze_prompt (<< >> before it is built)
  calls,             \* the provider API calls issued by the current run, in order
  reply,             \* << >>, or <<what the provider answered to the outstanding call>>
  errors,            \* the st.error notices of the current run, in order
  warned,            \* st.warning was shown by the current run
  analysis,          \* << >>, or <<the value analyze_prompt returned>> (shown by st.json)
  crashed            \* an exception escaped the current run

vars == << secrets, anthropic_client, openai_api_key, bot_type, provider, model, fields,
           num_exchanges, user_msg, agent_msg, pc, entry, inputs, analysis_prompt, calls,
           reply, errors, warned, analysis, crashed >>

----------------------------------------------------------------------------
(* Bounds of the model.                                                    *)

\* The largest "Number of Exchanges" the form is driven to (the widget has no maximum).
MaxExchanges == 2

\* The longest text drawn for a field of a rendered request.
MaxTextLen == 2

----------------------------------------------------------------------------
(* The fixed text of the instruction template, between the placeholders.   *)

\* TemplateHead is the text
\*   ||
\*   |You are an AI expert specializing in debugging and analyzing conversational agent prompts.|
\*   ||
\*   |Given the following inputs:|
\*   ||
\*   |- **Bot Type**: |
\* (one line of the source per line above, joined by newline, code point 10).
TemplateHead ==
  << 10, 89, 111, 117, 32, 97, 114, 101, 32, 97, 110, 32, 65, 73, 32, 101, 120, 112, 101, 114, 116, 32,
     115, 112, 101, 99, 105, 97, 108, 105, 122, 105, 110, 103, 32, 105, 110, 32, 100, 101, 98, 117, 103, 103,
     105, 110, 103, 32, 97, 110, 100, 32, 97, 110, 97, 108, 121, 122, 105, 110, 103, 32, 99, 111, 110, 118,
     101, 114, 115, 97, 116, 105, 111, 110, 97, 108, 32, 97, 103, 101, 110, 116, 32, 112, 114, 111, 109, 112,
     116, 115, 46, 10, 10, 71, 105, 118, 101, 110, 32, 116, 104, 101, 32, 102, 111, 108, 108, 111, 119, 105,
     110, 103, 32, 105, 110, 112, 117, 116, 115, 58, 10, 10, 45, 32, 42, 42, 66, 111, 116, 32, 84, 121,
     112, 101, 42, 42, 58, 32 >>

\* LabelSystemPrompt is the text
\*   ||
\*   |- **System Prompt**: |
\* (one line of the source per line above, joined by newline, code point 10).
LabelSystemPrompt ==
  << 10, 45, 32, 42, 42, 83, 121, 115, 116, 101, 109, 32, 80, 114, 111, 109, 112, 116, 42, 42, 58, 32 >>

\* LabelConversationHistory is the text
\*   ||
\*   |- **Conversation History**: |
\* (one line of the source per line above, joined by newline, code point 10).
LabelConversationHistory ==
  << 10, 45, 32, 42, 42, 67, 111, 110, 118, 101, 114, 115, 97, 116, 105, 111, 110, 32, 72, 105, 115, 116,
     111, 114, 121, 42, 42, 58, 32 >>

\* LabelDefectiveUserMessage is the text
\*   ||
\*   |- **Defective User Message**: |
\* (one line of the source per line above, joined by newline, code point 10).
LabelDefectiveUserMessage ==
  << 10, 45, 32, 42, 42, 68, 101, 102, 101, 99, 116, 105, 118, 101, 32, 85, 115, 101, 114, 32, 77, 101,
     115, 115, 97, 103, 101, 42, 42, 58, 32 >>

\* LabelDefectiveAgentResponse is the text
\*   ||
\*   |- **Defective Agent Response**: |
\* (one line of the source per line above, joined by newline, code point 10).
LabelDefectiveAgentResponse ==
  << 10, 45, 32, 42, 42, 68, 101, 102, 101, 99, 116, 105, 118, 101, 32, 65, 103, 101, 110, 116, 32, 82,
     101, 115, 112, 111, 110, 115, 101, 42, 42, 58, 32 >>

\* LabelIssueDescription is the text
\*   ||
\*   |- **Issue Description**: |
\* (one line of the source per line above, joined by newline, code point 10).
LabelIssueDescription ==
  << 10, 45, 32, 42, 42, 73, 115, 115, 117, 101, 32, 68, 101, 115, 99, 114, 105, 112, 116, 105, 111, 110,
     42, 42, 58, 32 >>

\* LabelAgentInterpretation is the text
\*   ||
\*   |- **Agent's Interpretation**: |
\* (one line of the source per line above, joined by newline, code point 10).
LabelAgentInterpretation ==
  << 10, 45, 32, 42, 42, 65, 103, 101, 110, 116, 39, 115, 32, 73, 110, 116, 101, 114, 112, 114, 101, 116,
     97, 116, 105, 111, 110, 42, 42, 58, 32 >>

\* LabelExpectedBehavior is the text
\*   ||
\*   |- **Expected Behavior**: |
\* (one line of the source per line above, joined by newline, code point 10).
LabelExpectedBehavior ==
  << 10, 45, 32, 42, 42, 69, 120, 112, 101, 99, 116, 101, 100, 32, 66, 101, 104, 97, 118, 105, 111, 114,
     42, 42, 58, 32 >>

\* LabelBehavioralGuidelines is the text
\*   ||
\*   |- **Behavioral Guidelines**: |
\* (one line of the source per line above, joined by newline, code point 10).
LabelBehavioralGuidelines ==
  << 10, 45, 32, 42, 42, 66, 101, 104, 97, 118, 105, 111, 114, 97, 108, 32, 71, 117, 105, 100, 101, 108,
     105, 110, 101, 115, 42, 42, 58, 32 >>

\* TemplateTail is the text
\*   ||
\*   ||
\*   |### Tasks:|
\*   |1. **Error Source Analysis**: Identify if the issue originates from the system prompt, guidelines, or model behavior.|
\*   |2. **Suggestions for Improvements**: Provide modifications to enhance the system prompt and guidelines.|
\*   |3. **Agent Interpretation Shift**: Explain how the agent's reasoning may change with the new modifications.|
\*   ||
\*   |Output should be in JSON format:|
\*   |{|
\*   |    "error_analysis": { "system_prompt": "...", "guidelines": "..." },|
\*   |    "suggestions": { "system_prompt": "...", "guidelines": "..." },|
\*   |    "interpretation_change": "..."|
\*   |}|
\*   |        |
\* (one line of the source per line above, joined by newline, code point 10).
TemplateTail ==
  << 10, 10, 35, 35, 35, 32, 84, 97, 115, 107, 115, 58, 10, 49, 46, 32, 42, 42, 69, 114, 114, 111,
     114, 32, 83, 111, 117, 114, 99, 101, 32, 65, 110, 97, 108, 121, 115, 105, 115, 42, 42, 58, 32, 73,
     100, 101, 110, 116, 105, 102, 121, 32, 105, 102, 32, 116, 104, 101, 32, 105, 115, 115, 117, 101, 32, 111,
     114, 105, 103, 105, 110, 97, 116, 101, 115, 32, 102, 114, 111, 109, 32, 116, 104, 101, 32, 115, 121, 115,
     116, 101, 109, 32, 112, 114, 111, 109, 112, 116, 44, 32, 103, 117, 105, 100, 101, 108, 105, 110, 101, 115,
     44, 32, 111, 114, 32, 109, 111, 100, 101, 108, 32, 98, 101, 104, 97, 118, 105, 111, 114, 46, 10, 50,
     46, 32, 42, 42, 83, 117, 103, 103, 101, 115, 116, 105, 111, 110, 115, 32, 102, 111, 114, 32, 73, 109,
     112, 114, 111, 118, 101, 109, 101, 110, 116, 115, 42, 42, 58, 32, 80, 114, 111, 118, 105, 100, 101, 32,
     109, 111, 100, 105, 102, 105, 99, 97, 116, 105, 111, 110, 115, 32, 116, 111, 32, 101, 110, 104, 97, 110,
     99, 101, 32, 116, 104, 101, 32, 115, 121, 115, 116, 101, 109, 32, 112, 114, 111, 109, 112, 116, 32, 97,
     110, 100, 32, 103, 117, 105, 100, 101, 108, 105, 110, 101, 115, 46, 10, 51, 46, 32, 42, 42, 65, 103,
     101, 110, 116, 32, 73, 110, 116, 101, 114, 112, 114, 101, 116, 97, 116, 105, 111, 110, 32, 83, 104, 105,
     102, 116, 42, 42, 58, 32, 69, 120, 112, 108, 97, 105, 110, 32, 104, 111, 119, 32, 116, 104, 101, 32,
     97, 103, 101, 110, 116, 39, 115, 32, 114, 101, 97, 115, 111, 110, 105, 110, 103, 32, 109, 97, 121, 32,
     99, 104, 97, 110, 103, 101, 32, 119, 105, 116, 104, 32, 116, 104, 101, 32, 110, 101, 119, 32, 109, 111,
     100, 105, 102, 105, 99, 97, 116, 105, 111, 110, 115, 46, 10, 10, 79, 117, 116, 112, 117, 116, 32, 115,
     104, 111, 117, 108, 100, 32, 98, 101, 32, 105, 110, 32, 74, 83, 79, 78, 32, 102, 111, 114, 109, 97,
     116, 58, 10, 123, 10, 32, 32, 32, 32, 34, 101, 114, 114, 111, 114, 95, 97, 110, 97, 108, 121, 115,
     105, 115, 34, 58, 32, 123, 32, 34, 115, 121, 115, 116, 101, 109, 95, 112, 114, 111, 109, 112, 116, 34,
     58, 32, 34, 46, 46, 46, 34, 44, 32, 34, 103, 117, 105, 100, 101, 108, 105, 110, 101, 115, 34, 58,
     32, 34, 46, 46, 46, 34, 32, 125, 44, 10, 32, 32, 32, 32, 34, 115, 117, 103, 103, 101, 115, 116,
     105, 111, 110, 115, 34, 58, 32, 123, 32, 34, 115, 121, 115, 116, 101, 109, 95, 112, 114, 111, 109, 112,
     116, 34, 58, 32, 34, 46, 46, 46, 34, 44, 32, 34, 103, 117, 105, 100, 101, 108, 105, 110, 101, 115,
     34, 58, 32, 34, 46, 46, 46, 34, 32, 125, 44, 10, 32, 32, 32, 32, 34, 105, 110, 116, 101, 114,
     112, 114, 101, 116, 97, 116, 105, 111, 110, 95, 99, 104, 97, 110, 103, 101, 34, 58, 32, 34, 46, 46,
     46, 34, 10, 125, 10, 32, 32, 32, 32, 32, 32, 32, 32 >>
----------------------------------------------------------------------------
(* JSON values: what json.loads returns and json.dumps takes.              *)
(* One record shape for every kind, so that any two values compare.        *)

JVal(t, s, n, keys, items) == [t |-> t, s |-> s, n |-> n, keys |-> keys, items |-> items]
\* str
JStr(s) == JVal("str", s, 0, << >>, << >>)
\* int
JInt(n) == JVal("int", << >>, n, << >>, << >>)
\* float, kept as the numeral it was read from
JFloat(lexeme) == JVal("float", lexeme, 0, << >>, << >>)
\* None
JNull == JVal("None", << >>, 0, << >>, << >>)
\* True, False
JBool(b) == JVal(IF b THEN "True" ELSE "False", << >>, 0, << >>, << >>)
\* list
JList(items) == JVal("list", << >>, 0, << >>, items)
\* dict: its keys in insertion order, and the value of each
JDict(keys, items) == JVal("dict", << >>, 0, keys, items)
\* {}
EmptyDict == JDict(<< >>, << >>)

RECURSIVE Concat(_)
Concat(seqs) == IF seqs = << >> THEN << >> ELSE Head(seqs) \o Concat(Tail(seqs))

RECURSIVE Spaces(_)
Spaces(n) == IF n = 0 THEN << >> ELSE <<32>> \o Spaces(n - 1)

(* json.dumps(obj, indent=2): ensure_ascii is on by default.               *)

HexDigit(d) == IF d < 10 THEN 48 + d ELSE 87 + d

\* '\\u{0:04x}'
EscapeU(n) ==
  << 92, 117, HexDigit(n \div 4096), HexDigit((n \div 256) % 16),
     HexDigit((n \div 16) % 16), HexDigit(n % 16) >>

\* One character of py_encode_basestring_ascii: ESCAPE_DCT, else \uXXXX (a
\* surrogate pair above the basic plane) for what is not in ' '..'~'.
EncodeChar(c) ==
  CASE c = 34 -> <<92, 34>>
    [] c = 92 -> <<92, 92>>
    [] c = 10 -> <<92, 110>>
    [] c = 13 -> <<92, 114>>
    [] c = 9  -> <<92, 116>>
    [] c = 8  -> <<92, 98>>
    [] c = 12 -> <<92, 102>>
    [] OTHER  ->
         IF c >= 32 /\ c <= 126 THEN <<c>>
         ELSE IF c < 65536 THEN EscapeU(c)
         ELSE EscapeU(55296 + (((c - 65536) \div 1024) % 1024))
                \o EscapeU(56320 + ((c - 65536) % 1024))

RECURSIVE EncodeChars(_)
EncodeChars(s) == IF s = << >> THEN << >> ELSE EncodeChar(Head(s)) \o EncodeChars(Tail(s))

EncodeString(s) == <<34>> \o EncodeChars(s) \o <<34>>

RECURSIVE Digits(_)
Digits(n) == IF n < 10 THEN <<48 + n>> ELSE Digits(n \div 10) \o <<48 + (n % 10)>>

NewlineIndent(indent, level) == <<10>> \o Spaces(indent * level)

RECURSIVE Encode(_, _, _)
RECURSIVE EncodeItems(_, _, _, _)
RECURSIVE EncodeMembers(_, _, _, _, _)

\* the items of a list, each after the first preceded by ',' and the new line
EncodeItems(items, i, indent, level) ==
  IF i > Len(items) THEN << >>
  ELSE (IF i > 1 THEN <<44>> \o NewlineIndent(indent, level) ELSE << >>)
         \o Encode(items[i], indent, level)
         \o EncodeItems(items, i + 1, indent, level)

\* the members of a dict: key, ': ', value
EncodeMembers(keys, items, i, indent, level) ==
  IF i > Len(keys) THEN << >>
  ELSE (IF i > 1 THEN <<44>> \o NewlineIndent(indent, level) ELSE << >>)
         \o EncodeString(keys[i]) \o <<58, 32>> \o Encode(items[i], indent, level)
         \o EncodeMembers(keys, items, i + 1, indent, level)

\* _iterencode at nesting depth `level`
Encode(v, indent, level) ==
  CASE v.t = "str"   -> EncodeString(v.s)
    [] v.t = "int"   -> IF v.n < 0 THEN <<45>> \o Digits(-v.n) ELSE Digits(v.n)
    [] v.t = "float" -> v.s
    [] v.t = "None"  -> <<110, 117, 108, 108>>
    [] v.t = "True"  -> <<116, 114, 117, 101>>
    [] v.t = "False" -> <<102, 97, 108, 115, 101>>
    [] v.t = "list"  ->
         IF v.items = << >> THEN <<91, 93>>
         ELSE <<91>> \o NewlineIndent(indent, level + 1)
                \o EncodeItems(v.items, 1, indent, level + 1)
                \o NewlineIndent(indent, level) \o <<93>>
    [] v.t = "dict"  ->
         IF v.keys = << >> THEN <<123, 125>>
         ELSE <<123>> \o NewlineIndent(indent, level + 1)
                \o EncodeMembers(v.keys, v.items, 1, indent, level + 1)
                \o NewlineIndent(indent, level) \o <<125>>

JsonDumps(v, indent) == Encode(v, indent, 0)

(* json.loads(text): the decoding of a str, character by character.        *)
(* A scan yields [ok, v, pos, lenient]: whether it succeeded, the value,   *)
(* the index after it, and whether it read one of the three literals that  *)
(* CPython accepts beyond the JSON grammar (NaN, Infinity, -Infinity).     *)

ScanFail == [ok |-> FALSE, v |-> JNull, pos |-> 0, lenient |-> FALSE]
Scanned(v, pos, lenient) == [ok |-> TRUE, v |-> v, pos |-> pos, lenient |-> lenient]

\* WHITESPACE = [ \t\n\r]*
IsWhitespace(c) == c \in {32, 9, 10, 13}

RECURSIVE SkipWhitespace(_, _)
SkipWhitespace(s, i) ==
  IF i <= Len(s) /\ IsWhitespace(s[i]) THEN SkipWhitespace(s, i + 1) ELSE i

IsDigit(c) == c >= 48 /\ c <= 57
IsHex(c) == IsDigit(c) \/ (c >= 97 /\ c <= 102) \/ (c >= 65 /\ c <= 70)
HexValue(c) == IF IsDigit(c) THEN c - 48 ELSE IF c >= 97 THEN c - 87 ELSE c - 55

\* s[i..i+Len(lit)-1] = lit
StartsWith(s, i, lit) ==
  /\ i + Len(lit) - 1 <= Len(s)
  /\ \A k \in 1..Len(lit) : s[i + k - 1] = lit[k]

\* four hexadecimal digits at s[i..i+3]
IsHex4(s, i) == i + 3 <= Len(s) /\ \A k \in 0..3 : IsHex(s[i + k])
Hex4(s, i) ==
  4096 * HexValue(s[i]) + 256 * HexValue(s[i + 1]) + 16 * HexValue(s[i + 2]) + HexValue(s[i + 3])

\* BACKSLASH: the character a one-letter escape stands for
IsSimpleEscape(e) == e \in {34, 92, 47, 98, 102, 110, 114, 116}
Unescape(e) ==
  CASE e = 98  -> 8
    [] e = 102 -> 12
    [] e = 110 -> 10
    [] e = 114 -> 13
    [] e = 116 -> 9
    [] OTHER   -> e

\* scanstring, strict: from the index after the opening quote; the result's v is a str
RECURSIVE ScanString(_, _, _)
ScanString(s, i, acc) ==
  IF i > Len(s) THEN ScanFail
  ELSE IF s[i] = 34 THEN Scanned(JStr(acc), i + 1, FALSE)
  ELSE IF s[i] = 92 THEN
    IF i + 1 > Len(s) THEN ScanFail
    ELSE IF s[i + 1] = 117 THEN
      IF ~IsHex4(s, i + 2) THEN ScanFail
      ELSE LET uni == Hex4(s, i + 2) IN
        IF /\ uni >= 55296 /\ uni <= 56319
           /\ i + 11 <= Len(s) /\ s[i + 6] = 92 /\ s[i + 7] = 117
        THEN
          IF ~IsHex4(s, i + 8) THEN ScanFail
          ELSE LET uni2 == Hex4(s, i + 8) IN
            IF uni2 >= 56320 /\ uni2 <= 57343
            THEN ScanString(s, i + 12,
                            Append(acc, 65536 + (uni - 55296) * 1024 + (uni2 - 56320)))
            ELSE ScanString(s, i + 6, Append(acc, uni))
        ELSE ScanString(s, i + 6, Append(acc, uni))
    ELSE IF IsSimpleEscape(s[i + 1]) THEN ScanString(s, i + 2, Append(acc, Unescape(s[i + 1])))
    ELSE ScanFail
  ELSE IF s[i] < 32 THEN ScanFail
  ELSE ScanString(s, i + 1, Append(acc, s[i]))

RECURSIVE DigitsEnd(_, _)
\* the index after the run of digits that starts at i
DigitsEnd(s, i) == IF i <= Len(s) /\ IsDigit(s[i]) THEN DigitsEnd(s, i + 1) ELSE i

RECURSIVE DecimalValue(_, _, _, _)
DecimalValue(s, i, j, acc) ==
  IF i >= j THEN acc ELSE DecimalValue(s, i + 1, j, 10 * acc + (s[i] - 48))

\* NUMBER_RE = (-?(?:0|[1-9]\d*))(\.\d+)?([eE][-+]?\d+)? matched at i;
\* Len(s) + 2 when it does not match, else the index after the match
IntegerEnd(s, i) ==
  LET d == IF i <= Len(s) /\ s[i] = 45 THEN i + 1 ELSE i IN
    IF d > Len(s) \/ ~IsDigit(s[d]) THEN Len(s) + 2
    ELSE IF s[d] = 48 THEN d + 1
    ELSE DigitsEnd(s, d)
FractionEnd(s, i) ==
  IF i + 1 <= Len(s) /\ s[i] = 46 /\ IsDigit(s[i + 1]) THEN DigitsEnd(s, i + 1) ELSE i
ExponentEnd(s, i) ==
  IF i <= Len(s) /\ s[i] \in {101, 69} THEN
    LET d == IF i + 1 <= Len(s) /\ s[i + 1] \in {45, 43} THEN i + 2 ELSE i + 1 IN
      IF d <= Len(s) /\ IsDigit(s[d]) THEN DigitsEnd(s, d) ELSE i
  ELSE i

ScanNumber(s, i) ==
  LET ie == IntegerEnd(s, i)
      fe == FractionEnd(s, ie)
      ee == ExponentEnd(s, fe)
  IN IF ie = Len(s) + 2 THEN ScanFail
     ELSE IF ee = ie THEN
       Scanned(JInt(IF s[i] = 45 THEN 0 - DecimalValue(s, i + 1, ie, 0)
                    ELSE DecimalValue(s, i, ie, 0)), ie, FALSE)
     ELSE Scanned(JFloat(SubSeq(s, i, ee - 1)), ee, FALSE)

LitNull == <<110, 117, 108, 108>>
LitTrue == <<116, 114, 117, 101>>
LitFalse == <<102, 97, 108, 115, 101>>
LitNaN == <<78, 97, 78>>
LitInfinity == <<73, 110, 102, 105, 110, 105, 116, 121>>
LitNegInfinity == <<45>> \o LitInfinity

\* the index of key k among keys, 0 when absent
KeyIndex(keys, k) ==
  IF \E j \in 1..Len(keys) : keys[j] = k
  THEN CHOOSE j \in 1..Len(keys) : keys[j] = k
  ELSE 0

RECURSIVE ScanOnce(_, _)
RECURSIVE ScanArray(_, _, _, _)
RECURSIVE ScanObject(_, _, _, _, _)

\* JSONArray: i is where the next item must start; acc the items read so far
ScanArray(s, i, acc, lenient) ==
  LET item == ScanOnce(s, i) IN
    IF ~item.ok THEN ScanFail
    ELSE LET j == SkipWhitespace(s, item.pos)
             items == Append(acc, item.v)
             len == lenient \/ item.lenient
         IN IF j > Len(s) THEN ScanFail
            ELSE IF s[j] = 93 THEN Scanned(JList(items), j + 1, len)
            ELSE IF s[j] = 44 THEN ScanArray(s, SkipWhitespace(s, j + 1), items, len)
            ELSE ScanFail

\* JSONObject: i is where the next key's opening quote must be; a repeated
\* key keeps its first place and takes the last value, as a dict does
ScanObject(s, i, keys, items, lenient) ==
  IF i > Len(s) \/ s[i] # 34 THEN ScanFail
  ELSE LET key == ScanString(s, i + 1, << >>) IN
    IF ~key.ok THEN ScanFail
    ELSE LET c == SkipWhitespace(s, key.pos) IN
      IF c > Len(s) \/ s[c] # 58 THEN ScanFail
      ELSE LET value == ScanOnce(s, SkipWhitespace(s, c + 1)) IN
        IF ~value.ok THEN ScanFail
        ELSE LET j == SkipWhitespace(s, value.pos)
                 at == KeyIndex(keys, key.v.s)
                 keys2 == IF at = 0 THEN Append(keys, key.v.s) ELSE keys
                 items2 == IF at = 0 THEN Append(items, value.v)
                           ELSE [items EXCEPT ![at] = value.v]
                 len == lenient \/ value.lenient
             IN IF j > Len(s) THEN ScanFail
                ELSE IF s[j] = 125 THEN Scanned(JDict(keys2, items2), j + 1, len)
                ELSE IF s[j] = 44
                  THEN ScanObject(s, SkipWhitespace(s, j + 1), keys2, items2, len)
                ELSE ScanFail

\* scan_once: the value that starts at i
ScanOnce(s, i) ==
  IF i > Len(s) THEN ScanFail
  ELSE IF s[i] = 34 THEN ScanString(s, i + 1, << >>)
  ELSE IF s[i] = 123 THEN
    LET j == SkipWhitespace(s, i + 1) IN
      IF j <= Len(s) /\ s[j] = 125 THEN Scanned(EmptyDict, j + 1, FALSE)
      ELSE ScanObject(s, j, << >>, << >>, FALSE)
  ELSE IF s[i] = 91 THEN
    LET j == SkipWhitespace(s, i + 1) IN
      IF j <= Len(s) /\ s[j] = 93 THEN Scanned(JList(<< >>), j + 1, FALSE)
      ELSE ScanArray(s, j, << >>, FALSE)
  ELSE IF StartsWith(s, i, LitNull) THEN Scanned(JNull, i + 4, FALSE)
  ELSE IF StartsWith(s, i, LitTrue) THEN Scanned(JBool(TRUE), i + 4, FALSE)
  ELSE IF StartsWith(s, i, LitFalse) THEN Scanned(JBool(FALSE), i + 5, FALSE)
  ELSE IF ScanNumber(s, i).ok THEN ScanNumber(s, i)
  ELSE IF StartsWith(s, i, LitNaN) THEN Scanned(JFloat(LitNaN), i + 3, TRUE)
  ELSE IF StartsWith(s, i, LitInfinity) THEN Scanned(JFloat(LitInfinity), i + 8, TRUE)
  ELSE IF StartsWith(s, i, LitNegInfinity) THEN Scanned(JFloat(LitNegInfinity), i + 9, TRUE)
  ELSE ScanFail

\* json.loads: no byte order mark, one value between whitespace, nothing after it
JsonLoads(s) ==
  IF Len(s) > 0 /\ s[1] = 65279 THEN ScanFail
  ELSE LET r == ScanOnce(s, SkipWhitespace(s, 1)) IN
    IF r.ok /\ SkipWhitespace(s, r.pos) = Len(s) + 1 THEN r ELSE ScanFail

----------------------------------------------------------------------------
(* The configuration source and the construction of PromptDebugger.        *)

SecretKeys == {"ANTHROPIC_API_KEY", "OPENAI_API_KEY"}

\* st.secrets[k], for a key that is present
SecretValue(k) == IF k = "ANTHROPIC_API_KEY" THEN "anthropic-secret" ELSE "openai-secret"

\* self.anthropic_client was never assigned
NoAttribute == "no attribute"
\* openai.api_key as the library leaves it when nothing assigns it
NoKey == "None"

\* the notice of line 31
MissingKeysError == [kind |-> "Missing API keys in Streamlit secrets.", cause |-> ""]
\* the notice of line 97, for the exception e
AnalysisError(e) == [kind |-> "Analysis Error", cause |-> e]

\* PromptDebugger.__init__, lines 27-31: the two assignments share one try, so
\* the first KeyError skips whatever follows it. `key` is openai.api_key before.
PromptDebuggerInit(sec, key) ==
  IF "ANTHROPIC_API_KEY" \notin sec
    THEN [anthropic_client |-> NoAttribute, openai_api_key |-> key,
          errors |-> <<MissingKeysError>>]
  ELSE IF "OPENAI_API_KEY" \notin sec
    THEN [anthropic_client |-> SecretValue("ANTHROPIC_API_KEY"), openai_api_key |-> key,
          errors |-> <<MissingKeysError>>]
  ELSE [anthropic_client |-> SecretValue("ANTHROPIC_API_KEY"),
        openai_api_key |-> SecretValue("OPENAI_API_KEY"), errors |-> << >>]

\* self.model_providers: for each provider, its model ids in the order written
\* (the display names take no part in any decision)
model_providers ==
  [Anthropic |-> <<"claude-3-opus-20240229", "claude-3-sonnet-20240229",
                   "claude-3-haiku-20240307">>,
   OpenAI    |-> <<"gpt-4o", "gpt-4", "gpt-3.5-turbo">>]

\* list(debugger.model_providers.keys())
ProviderKeys == <<"Anthropic", "OpenAI">>
\* list(debugger.model_providers[p].keys())
ModelKeys(p) == model_providers[p]

Range(s) == {s[i] : i \in 1..Len(s)}

----------------------------------------------------------------------------
(* analyze_prompt.                                                         *)

\* "user"
RoleUser == <<117, 115, 101, 114>>
\* "assistant"
RoleAssistant == <<97, 115, 115, 105, 115, 116, 97, 110, 116>>
\* "role"
KeyRole == <<114, 111, 108, 101>>
\* "content"
KeyContent == <<99, 111, 110, 116, 101, 110, 116>>
\* "system"
RoleSystem == <<115, 121, 115, 116, 101, 109>>
\* "Text Bot"
TextBot == <<84, 101, 120, 116, 32, 66, 111, 116>>
\* "Voice Bot"
VoiceBot == <<86, 111, 105, 99, 101, 32, 66, 111, 116>>
\* "You are an expert AI debugger."
SystemInstruction ==
  << 89, 111, 117, 32, 97, 114, 101, 32, 97, 110, 32, 101, 120, 112, 101, 114, 116, 32,
     65, 73, 32, 100, 101, 98, 117, 103, 103, 101, 114, 46 >>

\* one entry of conversation_history: {"role": ..., "content": ...}
Message(role, content) == [role |-> role, content |-> content]

\* the list of dicts as json.dumps sees it
HistoryValue(history) ==
  JList([i \in 1..Len(history) |->
           JDict(<<KeyRole, KeyContent>>, <<JStr(history[i].role), JStr(history[i].content)>>)])

\* Faulty variant: the template without its last placeholder
AnalysisPromptWithoutGuidelines(inp) ==
  Concat(<< TemplateHead, inp.bot_type,
            LabelSystemPrompt, inp.system_prompt,
            LabelConversationHistory, JsonDumps(HistoryValue(inp.conversation_history), 2),
            LabelDefectiveUserMessage, inp.defective_user_message,
            LabelDefectiveAgentResponse, inp.defective_agent_response,
            LabelIssueDescription, inp.defective_description,
            LabelAgentInterpretation, inp.agent_interpretation,
            LabelExpectedBehavior, inp.expected_behavior,
            LabelBehavioralGuidelines, TemplateTail >>)

\* the f-string of lines 47-73
AnalysisPrompt(inp) ==
  Concat(<< TemplateHead, inp.bot_type,
            LabelSystemPrompt, inp.system_prompt,
            LabelConversationHistory, JsonDumps(HistoryValue(inp.conversation_history), 2),
            LabelDefectiveUserMessage, inp.defective_user_message,
            LabelDefectiveAgentResponse, inp.defective_agent_response,
            LabelIssueDescription, inp.defective_description,
            LabelAgentInterpretation, inp.agent_interpretation,
            LabelExpectedBehavior, inp.expected_behavior,
            LabelBehavioralGuidelines, inp.behavioral_guidelines,
            TemplateTail >>)

AnthropicCreate == "anthropic_client.messages.create"
OpenAICreate == "openai.ChatCompletion.create"

\* Faulty variant: the provider name is compared in lower case
CallPathLowercase(p) == IF p = "anthropic" THEN AnthropicCreate ELSE OpenAICreate

\* line 76: the branch taken for a provider name
CallPath(p) == IF p = "Anthropic" THEN AnthropicCreate ELSE OpenAICreate

max_tokens == 4000

\* the request of lines 77-81 or 84-92, with the credential it goes out under
ProviderCall(inp, prompt, client, key) ==
  IF CallPath(inp.provider) = AnthropicCreate
    THEN [api |-> AnthropicCreate, model |-> inp.model, max_tokens |-> max_tokens,
          temperature |-> "not given", api_key |-> client,
          messages |-> <<Message(RoleUser, prompt)>>]
    ELSE [api |-> OpenAICreate, model |-> inp.model, max_tokens |-> max_tokens,
          temperature |-> "0.2", api_key |-> key,
          messages |-> <<Message(RoleSystem, SystemInstruction),
                         Message(RoleUser, prompt)>>]

\* the exceptions the model raises; each is a subclass of Exception
TransportErrors == {"APIConnectionError", "RateLimitError", "AuthenticationError"}
ExceptionClasses ==
  TransportErrors \cup {"AttributeError", "IndexError", "TypeError", "JSONDecodeError"}

\* line 96: except Exception
Caught(e) == e \in ExceptionClasses

\* lines 96-98 for an exception e raised inside the try, after the notices errs
Except(e, errs) ==
  IF Caught(e)
    THEN /\ errors' = Append(errs, AnalysisError(e))
         /\ analysis' = <<EmptyDict>>
         /\ crashed' = FALSE
    ELSE /\ errors' = errs
         /\ analysis' = << >>
         /\ crashed' = TRUE

\* analyze_prompt from its entry to the provider call of line 77 or 84 (or to its
\* return, when reading self.anthropic_client raises): client and key are the
\* credentials in force, errs the notices already shown by this run
AnalyzePrompt(inp, client, key, errs) ==
  /\ inputs' = <<inp>>
  /\ analysis_prompt' = AnalysisPrompt(inp)
  /\ reply' = << >>
  /\ IF CallPath(inp.provider) = AnthropicCreate /\ client = NoAttribute
       THEN /\ Except("AttributeError", errs)
            /\ calls' = << >>
            /\ pc' = "idle"
       ELSE /\ calls' = <<ProviderCall(inp, AnalysisPrompt(inp), client, key)>>
            /\ pc' = "awaiting"
            /\ errors' = errs
            /\ analysis' = << >>
            /\ crashed' = FALSE

\* an item of response.content (Anthropic) or response.choices (OpenAI): a text
\* block or a message with content, or one without any text
TextItem(t) == [has_text |-> TRUE, text |-> t]
NoTextItem == [has_text |-> FALSE, text |-> << >>]

\* Faulty variant: the last item is read instead of the first
LastItem(content) == content[Len(content)]

\* response.content[0], response.choices[0]
FirstItem(content) == content[1]

\* what reading the text of an item without text raises: a block without .text
\* (line 82), json.loads(None) (line 93)
NoTextException(api) == IF api = AnthropicCreate THEN "AttributeError" ELSE "TypeError"

formVars == << bot_type, provider, model, fields, num_exchanges, user_msg, agent_msg >>
configVars == << secrets, anthropic_client, openai_api_key >>

\* Faulty variant: a failed call is issued once more before the failure is reported
ProviderRaisesRetry ==
  /\ pc = "awaiting"
  /\ \E e \in TransportErrors :
       /\ reply' = <<[kind |-> "raise", exc |-> e, content |-> << >>]>>
       /\ IF Len(calls) < 2
            THEN /\ calls' = Append(calls, calls[Len(calls)])
                 /\ pc' = "awaiting"
                 /\ UNCHANGED << errors, analysis, crashed >>
            ELSE /\ Except(e, errors)
                 /\ pc' = "idle"
                 /\ UNCHANGED calls
  /\ UNCHANGED << formVars, configVars, entry, inputs, analysis_prompt, warned >>

\* the provider call raises e: lines 96-98
ProviderRaises ==
  /\ pc = "awaiting"
  /\ \E e \in TransportErrors :
       /\ reply' = <<[kind |-> "raise", exc |-> e, content |-> << >>]>>
       /\ Except(e, errors)
  /\ pc' = "idle"
  /\ UNCHANGED << formVars, configVars, entry, inputs, analysis_prompt, calls, warned >>

\* the provider call returns a response holding `content`: line 82 or 93, then 95
Returns(content) ==
  /\ reply' = <<[kind |-> "return", exc |-> "", content |-> content]>>
  /\ IF content = << >> THEN Except("IndexError", errors)
     ELSE IF ~FirstItem(content).has_text THEN Except(NoTextException(calls[Len(calls)].api), errors)
     ELSE LET result == JsonLoads(FirstItem(content).text) IN
       IF ~result.ok THEN Except("JSONDecodeError", errors)
       ELSE /\ analysis' = <<result.v>>
            /\ errors' = errors
            /\ crashed' = FALSE
  /\ pc' = "idle"
  /\ UNCHANGED << formVars, configVars, entry, inputs, analysis_prompt, calls, warned >>

----------------------------------------------------------------------------
(* main(): one run of the script per interaction with the form.            *)

\* the options of "Bot Type"
BotTypes == <<TextBot, VoiceBot>>

\* the text areas line 137 requires
RequiredFields ==
  {"system_prompt", "defective_user_message", "defective_agent_response",
   "defective_description", "agent_interpretation", "expected_behavior",
   "behavioral_guidelines"}

\* what is typed into a text area of the form: nothing, or "Z"
FormTexts == {<< >>, <<90>>}

\* Faulty variant: the choice stored by an earlier run is returned whatever the options
SelectboxKeepsStored(options, stored) == stored

\* st.selectbox: the stored choice while it is among the options, else the first
Selectbox(options, stored) == IF stored \in Range(options) THEN stored ELSE options[1]

\* Faulty variant: behavioral_guidelines is left out of the list of line 137
AllRequiredButGuidelines(f) ==
  \A name \in RequiredFields \ {"behavioral_guidelines"} : f[name] # << >>

\* line 137: every required text is non-empty
AllRequired(f) == \A name \in RequiredFields : f[name] # << >>

RECURSIVE HistoryFrom(_, _, _, _)
\* lines 119-127, from exchange i on
HistoryFrom(i, n, um, am) ==
  IF i > n THEN << >>
  ELSE (IF um[i] # << >> THEN <<Message(RoleUser, um[i])>> ELSE << >>)
         \o (IF am[i] # << >> THEN <<Message(RoleAssistant, am[i])>> ELSE << >>)
         \o HistoryFrom(i + 1, n, um, am)

ConversationHistory == HistoryFrom(1, num_exchanges, user_msg, agent_msg)

\* lines 141-153
Inputs ==
  [bot_type |-> bot_type,
   system_prompt |-> fields["system_prompt"],
   conversation_history |-> ConversationHistory,
   defective_user_message |-> fields["defective_user_message"],
   defective_agent_response |-> fields["defective_agent_response"],
   defective_description |-> fields["defective_description"],
   agent_interpretation |-> fields["agent_interpretation"],
   expected_behavior |-> fields["expected_behavior"],
   behavioral_guidelines |-> fields["behavioral_guidelines"],
   provider |-> provider,
   model |-> model]

\* a run of main() in which the button is not pressed: line 102 constructs the
\* debugger again, and what the previous run displayed is gone
Render ==
  LET d == PromptDebuggerInit(secrets, openai_api_key) IN
    /\ anthropic_client' = d.anthropic_client
    /\ openai_api_key' = d.openai_api_key
    /\ errors' = d.errors
    /\ entry' = "render"
    /\ pc' = "idle"
    /\ inputs' = << >>
    /\ analysis_prompt' = << >>
    /\ calls' = << >>
    /\ reply' = << >>
    /\ warned' = FALSE
    /\ analysis' = << >>
    /\ crashed' = FALSE
    /\ UNCHANGED secrets

\* line 107
SelectBotType ==
  /\ pc = "idle"
  /\ \E b \in Range(BotTypes) : b # bot_type /\ bot_type' = b
  /\ UNCHANGED << provider, model, fields, num_exchanges, user_msg, agent_msg >>
  /\ Render

\* lines 108-109: the model options are those of the provider chosen in this run
SelectProvider ==
  /\ pc = "idle"
  /\ \E p \in Range(ProviderKeys) :
       /\ p # provider
       /\ provider' = p
       /\ model' = Selectbox(ModelKeys(p), model)
  /\ UNCHANGED << bot_type, fields, num_exchanges, user_msg, agent_msg >>
  /\ Render

\* line 109
SelectModel ==
  /\ pc = "idle"
  /\ \E m \in Range(ModelKeys(provider)) : m # model /\ model' = m
  /\ UNCHANGED << bot_type, provider, fields, num_exchanges, user_msg, agent_msg >>
  /\ Render

\* lines 114-115 and 130-134
EditField ==
  /\ pc = "idle"
  /\ \E name \in RequiredFields, t \in FormTexts :
       t # fields[name] /\ fields' = [fields EXCEPT ![name] = t]
  /\ UNCHANGED << bot_type, provider, model, num_exchanges, user_msg, agent_msg >>
  /\ Render

\* line 118: min_value=1; the text areas of an exchange that is no longer drawn
\* lose their text, those of a new exchange start empty
SetNumExchanges ==
  /\ pc = "idle"
  /\ \E n \in 1..MaxExchanges :
       /\ n # num_exchanges
       /\ num_exchanges' = n
       /\ user_msg' = [i \in 1..n |-> IF i <= num_exchanges THEN user_msg[i] ELSE << >>]
       /\ agent_msg' = [i \in 1..n |-> IF i <= num_exchanges THEN agent_msg[i] ELSE << >>]
  /\ UNCHANGED << bot_type, provider, model, fields >>
  /\ Render

\* line 122
EditUserMessage ==
  /\ pc = "idle"
  /\ \E i \in 1..num_exchanges, t \in FormTexts :
       t # user_msg[i] /\ user_msg' = [user_msg EXCEPT ![i] = t]
  /\ UNCHANGED << bot_type, provider, model, fields, num_exchanges, agent_msg >>
  /\ Render

\* line 123
EditAgentResponse ==
  /\ pc = "idle"
  /\ \E i \in 1..num_exchanges, t \in FormTexts :
       t # agent_msg[i] /\ agent_msg' = [agent_msg EXCEPT ![i] = t]
  /\ UNCHANGED << bot_type, provider, model, fields, num_exchanges, user_msg >>
  /\ Render

\* lines 136-155: the run in which the button is pressed, up to the provider call
\* (or to its end, when no call is made)
PressAnalyze ==
  /\ pc = "idle"
  /\ UNCHANGED << formVars, secrets >>
  /\ LET d == PromptDebuggerInit(secrets, openai_api_key) IN
       /\ anthropic_client' = d.anthropic_client
       /\ openai_api_key' = d.openai_api_key
       /\ entry' = "button"
       /\ IF ~AllRequired(fields)
            THEN /\ warned' = TRUE
                 /\ errors' = d.errors
                 /\ pc' = "idle"
                 /\ inputs' = << >>
                 /\ analysis_prompt' = << >>
                 /\ calls' = << >>
                 /\ reply' = << >>
                 /\ analysis' = << >>
                 /\ crashed' = FALSE
            ELSE /\ warned' = FALSE
                 /\ AnalyzePrompt(Inputs, d.anthropic_client, d.openai_api_key, d.errors)

\* "not json"
ReplyNotJson == <<110, 111, 116, 32, 106, 115, 111, 110>>
\* {"error_analysis":{"system_prompt":"a","guidelines":"b"},"suggestions":{"system_prompt":"c","guidelines":"d"},"interpretation_change":"e"}
ReplyReport ==
  << 123, 34, 101, 114, 114, 111, 114, 95, 97, 110, 97, 108, 121, 115, 105, 115, 34, 58,
     123, 34, 115, 121, 115, 116, 101, 109, 95, 112, 114, 111, 109, 112, 116, 34, 58, 34,
     97, 34, 44, 34, 103, 117, 105, 100, 101, 108, 105, 110, 101, 115, 34, 58, 34, 98, 34,
     125, 44, 34, 115, 117, 103, 103, 101, 115, 116, 105, 111, 110, 115, 34, 58, 123, 34,
     115, 121, 115, 116, 101, 109, 95, 112, 114, 111, 109, 112, 116, 34, 58, 34, 99, 34,
     44, 34, 103, 117, 105, 100, 101, 108, 105, 110, 101, 115, 34, 58, 34, 100, 34, 125,
     44, 34, 105, 110, 116, 101, 114, 112, 114, 101, 116, 97, 116, 105, 111, 110, 95, 99,
     104, 97, 110, 103, 101, 34, 58, 34, 101, 34, 125 >>
\* {"interpretation_change": "e"}
ReplyPartial ==
  << 123, 34, 105, 110, 116, 101, 114, 112, 114, 101, 116, 97, 116, 105, 111, 110, 95, 99,
     104, 97, 110, 103, 101, 34, 58, 32, 34, 101, 34, 125 >>
\* [1, "a"]
ReplyList == <<91, 49, 44, 32, 34, 97, 34, 93>>
\* NaN
ReplyNaN == <<78, 97, 78>>
\* {"a": 1} trailing
ReplyTrailing ==
  <<123, 34, 97, 34, 58, 32, 49, 125, 32, 116, 114, 97, 105, 108, 105, 110, 103>>

\* the texts a provider answers with
ReplyTexts == {<< >>, ReplyNotJson, ReplyReport, ReplyPartial, ReplyList, ReplyNaN, ReplyTrailing}

\* the responses a provider returns: no item, an item without text, one text, or
\* two items
ReplyContents ==
  {<< >>, <<NoTextItem>>}
    \cup {<<TextItem(t)>> : t \in ReplyTexts}
    \cup {<<TextItem(ReplyPartial), TextItem(ReplyNotJson)>>,
          <<TextItem(ReplyNotJson), TextItem(ReplyList)>>}

ProviderReturns ==
  /\ pc = "awaiting"
  /\ \E content \in ReplyContents : Returns(content)

\* after the first run of main(): the debugger constructed from the secrets,
\* every widget at its default
Started ==
  /\ secrets \in SUBSET SecretKeys
  /\ anthropic_client = PromptDebuggerInit(secrets, NoKey).anthropic_client
  /\ openai_api_key = PromptDebuggerInit(secrets, NoKey).openai_api_key
  /\ errors = PromptDebuggerInit(secrets, NoKey).errors
  /\ bot_type = BotTypes[1]
  /\ provider = ProviderKeys[1]
  /\ model = ModelKeys(ProviderKeys[1])[1]
  /\ fields = [name \in RequiredFields |-> << >>]
  /\ num_exchanges = 1
  /\ user_msg = <<<< >>>>
  /\ agent_msg = <<<< >>>>
  /\ pc = "idle"
  /\ entry = "render"
  /\ analysis_prompt = << >>
  /\ calls = << >>
  /\ reply = << >>
  /\ warned = FALSE
  /\ analysis = << >>
  /\ crashed = FALSE

\* no request exists before the button is pressed
Init == Started /\ inputs = << >>

Next ==
  \/ SelectBotType
  \/ SelectProvider
  \/ SelectModel
  \/ EditField
  \/ SetNumExchanges
  \/ EditUserMessage
  \/ EditAgentResponse
  \/ PressAnalyze
  \/ ProviderRaises
  \/ ProviderReturns

Spec == Init /\ [][Next]_vars

----------------------------------------------------------------------------
(* analyze_prompt called on its own, with any request.                     *)

AllModels == Range(ModelKeys("Anthropic")) \cup Range(ModelKeys("OpenAI"))

\* the text given to required field number k of a request drawn with text t
Tagged(t, k) == t \o <<48 + k>>

\* a request whose required texts are t followed by a digit that tells them apart
Request(b, t, h, p, m) ==
  [bot_type |-> b,
   system_prompt |-> Tagged(t, 1),
   conversation_history |-> h,
   defective_user_message |-> Tagged(t, 2),
   defective_agent_response |-> Tagged(t, 3),
   defective_description |-> Tagged(t, 4),
   agent_interpretation |-> Tagged(t, 5),
   expected_behavior |-> Tagged(t, 6),
   behavioral_guidelines |-> Tagged(t, 7),
   provider |-> p,
   model |-> m]

\* the requests analyze_prompt is called with: either provider, with any model
\* of the catalog or one that is in no mapping
DirectRequests ==
  {Request(b, <<90>>, h, p, m) :
     b \in Range(BotTypes),
     h \in {<< >>, <<Message(RoleUser, <<90>>), Message(RoleAssistant, <<90>>)>>},
     p \in Range(ProviderKeys),
     m \in AllModels \cup {"unknown-model"}}

\* a call of analyze_prompt on the debugger constructed at start
AnalyzePromptDirect ==
  /\ pc = "idle"
  /\ \E inp \in DirectRequests : AnalyzePrompt(inp, anthropic_client, openai_api_key, << >>)
  /\ entry' = "direct"
  /\ warned' = FALSE
  /\ UNCHANGED << formVars, configVars >>

NextDispatch ==
  \/ AnalyzePromptDirect
  \/ ProviderRaises
  \/ ProviderReturns

SpecDispatch == Init /\ [][NextDispatch]_vars

----------------------------------------------------------------------------
(* The rendering of the instruction alone, over texts that need escaping.  *)

\* 'Z', '"', '\', newline, e-acute, and a character above the basic plane
Alphabet == {90, 34, 92, 10, 233, 128512}

\* every text over the alphabet of length at most n
Texts(n) == UNION {[1..k -> Alphabet] : k \in 0..n}

\* the texts the required fields are drawn from
ScalarTexts == {<<90>>, <<34, 92>>, <<233, 10>>}

\* the histories drawn: none, one message, or a user message and its answer
Histories ==
  {<< >>}
    \cup {<<Message(RoleUser, c)>> : c \in Texts(MaxTextLen) \ {<< >>}}
    \cup {<<Message(RoleUser, <<90>>), Message(RoleAssistant, c)>> :
            c \in Texts(MaxTextLen) \ {<< >>}}

RenderRequests ==
  {Request(b, t, h, pm[1], pm[2]) :
     b \in Range(BotTypes), t \in ScalarTexts, h \in Histories,
     pm \in {<<"Anthropic", "claude-3-haiku-20240307">>, <<"OpenAI", "gpt-4">>}}

\* a request is given; nothing is rendered yet
InitRender ==
  /\ Started
  /\ secrets = SecretKeys
  /\ inputs \in {<<inp>> : inp \in RenderRequests}

\* lines 47-73 alone, on the request given
RenderPrompt ==
  /\ pc = "idle"
  /\ inputs # << >>
  /\ analysis_prompt = << >>
  /\ analysis_prompt' = AnalysisPrompt(inputs[1])
  /\ entry' = "direct"
  /\ UNCHANGED << formVars, configVars, pc, inputs, calls, reply, errors, warned, analysis,
                  crashed >>

NextRender == RenderPrompt

SpecRender == InitRender /\ [][NextRender]_vars

----------------------------------------------------------------------------
(* Properties.                                                             *)

\* s occurs in t as a run of consecutive characters
IsSubstring(s, t) ==
  \E i \in 0..(Len(t) - Len(s)) : \A j \in 1..Len(s) : t[i + j] = s[j]

\* the request of the current run, once analyze_prompt has been called
Invoked == inputs # << >>
Request1 == inputs[1]

\* the provider has answered the call of the current run, and analyze_prompt returned
Answered == pc = "idle" /\ reply # << >>

\* the text analyze_prompt reads from the response, when the response has one
HasText == reply[1].kind = "return" /\ reply[1].content # << >> /\ reply[1].content[1].has_text
ReadText == reply[1].content[1].text

\* an "Analysis Error" notice was shown by the current run
AnalysisErrorShown == \E i \in 1..Len(errors) : errors[i].kind = "Analysis Error"

\* C1: a request for "Anthropic" causes calls on the Anthropic path only, and a
\* request for "OpenAI" calls on the OpenAI path only.
RoutesToSelectedProviderOnly ==
  Invoked =>
    \A i \in 1..Len(calls) :
      /\ Request1.provider = "Anthropic" => calls[i].api = AnthropicCreate
      /\ Request1.provider = "OpenAI" => calls[i].api = OpenAICreate

\* an Anthropic request was sent on the Anthropic path and answered
RoutedToAnthropic ==
  /\ Answered /\ Invoked
  /\ Request1.provider = "Anthropic"
  /\ Len(calls) = 1 /\ calls[1].api = AnthropicCreate
  /\ calls[1].model = Request1.model

\* Valid JSON is the JSON grammar: a text json.loads decodes without reading
\* NaN, Infinity or -Infinity.
ValidJson(t) == JsonLoads(t).ok /\ ~JsonLoads(t).lenient

\* C2: when the provider call raises, or the text it returned is not valid JSON,
\* analyze_prompt shows an error naming the cause and returns {}; nothing escapes.
FailureGivesErrorAndEmptyResult ==
  /\ (Answered /\ reply[1].kind = "raise") =>
       /\ analysis = <<EmptyDict>>
       /\ \E i \in 1..Len(errors) : errors[i] = AnalysisError(reply[1].exc)
       /\ ~crashed
  /\ (Answered /\ HasText /\ ~ValidJson(ReadText)) =>
       /\ analysis = <<EmptyDict>>
       /\ \E i \in 1..Len(errors) : errors[i] = AnalysisError("JSONDecodeError")
       /\ ~crashed

\* C3: when the call succeeds and the first item's text is JSON, analyze_prompt
\* returns the decoded value as it is, whatever its shape, and shows no error.
ReturnsDecodedValueUnchanged ==
  (Answered /\ HasText /\ JsonLoads(ReadText).ok) =>
    /\ analysis = <<JsonLoads(ReadText).v>>
    /\ ~AnalysisErrorShown
    /\ ~crashed
    /\ ReadText = ReplyList => analysis = <<JList(<<JInt(1), JStr(<<97>>)>>)>>
    /\ ReadText = ReplyPartial =>
         analysis = <<JDict(<<SubSeq(ReplyPartial, 3, 23)>>, <<JStr(<<101>>)>>)>>

\* a JSON list, not the report object, came back and was returned as the list
ReturnedNonObject ==
  /\ Answered /\ HasText
  /\ ReadText = ReplyList
  /\ analysis = <<JList(<<JInt(1), JStr(<<97>>)>>)>>
  /\ errors = << >>

\* C4: a press of the button with a required field empty calls neither
\* analyze_prompt nor a provider; a warning is shown.
EmptyFieldBlocksAnalysis ==
  (entry = "button" /\ \E name \in RequiredFields : fields[name] = << >>) =>
    /\ warned
    /\ ~Invoked
    /\ calls = << >>
    /\ analysis = << >>
    /\ pc = "idle"

\* the button was pressed with behavioral_guidelines alone left empty
PressedWithOneFieldEmpty ==
  /\ entry = "button"
  /\ fields["behavioral_guidelines"] = << >>
  /\ \A name \in RequiredFields \ {"behavioral_guidelines"} : fields[name] # << >>
  /\ warned

\* the secret a provider's calls need
CredentialKey(p) == IF p = "Anthropic" THEN "ANTHROPIC_API_KEY" ELSE "OPENAI_API_KEY"

\* C5: when the selected provider's credential was absent at startup, no call to
\* that provider is issued, an error is reported, {} is returned, nothing crashes.
MissingCredentialBlocksDispatch ==
  (Invoked /\ CredentialKey(Request1.provider) \notin secrets) =>
    /\ calls = << >>
    /\ pc = "idle"
    /\ errors # << >>
    /\ analysis = <<EmptyDict>>
    /\ ~crashed

\* C6: a model that is not a key of the selected provider's mapping is refused
\* before any provider call.
UnknownModelRefusedBeforeCall ==
  (Invoked /\ Request1.model \notin Range(model_providers[Request1.provider])) =>
    /\ calls = << >>
    /\ pc = "idle"
    /\ AnalysisErrorShown

\* C7: one invocation of analyze_prompt issues at most one provider call, and
\* none after a call has failed.
SingleAttempt ==
  /\ Len(calls) <= 1
  /\ (reply # << >> /\ reply[1].kind = "raise") => (pc = "idle" /\ Len(calls) = 1)

\* a call failed and analyze_prompt returned after that one call
FailedOnce ==
  /\ reply # << >> /\ reply[1].kind = "raise"
  /\ pc = "idle" /\ Len(calls) = 1
  /\ analysis = <<EmptyDict>>

\* the characters of a provider or model name
NameText(name) ==
  CASE name = "Anthropic" -> <<65, 110, 116, 104, 114, 111, 112, 105, 99>>
    [] name = "OpenAI" -> <<79, 112, 101, 110, 65, 73>>
    [] name = "claude-3-haiku-20240307" ->
         << 99, 108, 97, 117, 100, 101, 45, 51, 45, 104, 97, 105, 107, 117, 45, 50, 48, 50,
            52, 48, 51, 48, 55 >>
    [] name = "gpt-4" -> <<103, 112, 116, 45, 52>>

\* the fields of a request that are rendered as they are
ScalarFields(inp) ==
  << inp.bot_type, inp.system_prompt, inp.defective_user_message,
     inp.defective_agent_response, inp.defective_description, inp.agent_interpretation,
     inp.expected_behavior, inp.behavioral_guidelines >>

Rendered == Invoked /\ analysis_prompt # << >>

\* C8 as stated: the instruction contains the exact content of every field of the
\* request, each history message's content and the provider and model included.
InstructionContainsEveryField ==
  Rendered =>
    /\ \A k \in 1..8 : IsSubstring(ScalarFields(Request1)[k], analysis_prompt)
    /\ \A i \in 1..Len(Request1.conversation_history) :
         IsSubstring(Request1.conversation_history[i].content, analysis_prompt)
    /\ IsSubstring(NameText(Request1.provider), analysis_prompt)
    /\ IsSubstring(NameText(Request1.model), analysis_prompt)

\* a text json.dumps writes as it is: printable ASCII without '"' and '\'
IsPlain(s) == \A i \in 1..Len(s) : s[i] >= 32 /\ s[i] <= 126 /\ s[i] \notin {34, 92}

\* C8 as amended: the instruction contains the bot type and the seven texts as
\* they are; the history is embedded as json.dumps(history, indent=2), so that a
\* message's content appears as its JSON string literal (as it is when it is
\* plain) and the embedded document decodes back to the history; provider and
\* model are not rendered.
InstructionEmbedsFields ==
  Rendered =>
    LET history == Request1.conversation_history
        document == JsonDumps(HistoryValue(history), 2)
    IN /\ \A k \in 1..8 : IsSubstring(ScalarFields(Request1)[k], analysis_prompt)
       /\ IsSubstring(LabelConversationHistory \o document \o LabelDefectiveUserMessage,
                      analysis_prompt)
       /\ JsonLoads(document).ok /\ JsonLoads(document).v = HistoryValue(history)
       /\ \A i \in 1..Len(history) :
            /\ IsSubstring(EncodeString(history[i].content), document)
            /\ IsSubstring(EncodeString(history[i].role), document)
            /\ IsPlain(history[i].content) => IsSubstring(history[i].content, document)
       /\ \A p \in Range(ProviderKeys), m \in AllModels :
            analysis_prompt = AnalysisPrompt([Request1 EXCEPT !.provider = p, !.model = m])

\* an instruction was rendered for a history whose message needs escaping
RenderedEscapedHistory ==
  /\ Rendered
  /\ Len(Request1.conversation_history) = 1
  /\ Request1.conversation_history[1].content = <<34, 233>>
  /\ IsSubstring(<<34, 92, 34, 92, 117, 48, 48, 101, 57, 34>>, analysis_prompt)
  /\ Request1.system_prompt = <<34, 92, 49>>

\* C9: whenever the OpenAI credential is configured, OpenAI calls go out under
\* it, whether or not the Anthropic credential is configured.
OpenAIKeyInstalledWhenPresent ==
  "OPENAI_API_KEY" \in secrets =>
    \A i \in 1..Len(calls) :
      calls[i].api = OpenAICreate => calls[i].api_key = SecretValue("OPENAI_API_KEY")

\* C10: every request main passes to analyze_prompt names a provider of the
\* catalog and a model of that provider; the form never holds another pair.
ButtonRequestsAreInCatalog ==
  /\ provider \in DOMAIN model_providers
  /\ model \in Range(model_providers[provider])
  /\ (entry = "button" /\ Invoked) =>
       /\ Request1.provider \in DOMAIN model_providers
       /\ Request1.model \in Range(model_providers[Request1.provider])

\* after the provider was changed and a model picked, the button sent the pair
PressedAfterSelections ==
  /\ entry = "button" /\ Invoked
  /\ Request1.provider = "OpenAI"
  /\ Request1.model = "gpt-3.5-turbo"
  /\ Len(calls) = 1 /\ calls[1].model = "gpt-3.5-turbo"

====
